---------------------------- MODULE Spec2Model ----------------------------
(***************************************************************************)
(* The three-node agent graph of src/example_3_agent_langgraph.py          *)
(* (orchestrator, analyzer, responder) run by run_query, one model call    *)
(* per step.  Strings are sequences of one-character strings, so that      *)
(* str.strip() and str.lower() are computed and not assumed; the fixed     *)
(* text of a prompt template is one element of the prompt's sequence.      *)
(***************************************************************************)
EXTENDS Naturals, Sequences, FiniteSets, TLC

VARIABLES
    state,      \* the AgentState of the run in progress (or of the last run)
    current,    \* the node the graph executes next, END after the last one
    status,     \* "idle" | "running" | "done" | "aborted" | "blocked"
    error,      \* the exception that left run_query, "" when none
    visited,    \* the nodes invoked in this run, in order
    calls,      \* the llm.invoke calls of this run: node, prompt, outcome
    result,     \* what run_query returned, NoResult when it has not returned
    runs,       \* the number of run_query calls so far
    stubbed,    \* TRUE when llm is a stub that answers by prompt alone
    memo,       \* the stub's answers so far: pairs <<prompt, outcome>>
    history,    \* under a stub, the outcome of every ended run
    initial,    \* the initial_state that run_query gave to graph.invoke
    objs,       \* the state dicts of this run, in order of creation
    cur,        \* the position in objs of the dict the next node receives
    conc,       \* the run_query calls of concurrent callers, by caller
    messages,   \* ConversationManager: self.messages
    system_prompt, \* the system_prompt argument of the constructor
    made,       \* TRUE once the ConversationManager is constructed
    request,    \* the arguments of the latest ollama.chat call
    sends,      \* the send_message calls that returned
    failed,     \* the send_message calls that raised
    clears,     \* the clear_history calls
    last        \* the latest call: "none" | "init" | "send" | "fail" | "clear"

vars == <<state, current, status, error, visited, calls, result, runs,
          stubbed, memo, history, initial, objs, cur, conc,
          messages, system_prompt, made, request, sends, failed, clears, last>>

\* The variables of the agent graph and those of the ConversationManager
\* (src/example_2_conversation.py); the two programs share nothing.
graphVars == <<state, current, status, error, visited, calls, result, runs,
               stubbed, memo, history, initial, objs, cur, conc>>

convVars == <<messages, system_prompt, made, request, sends, failed, clears, last>>

\* The number of run_query calls a behaviour makes (main makes three).
MaxRuns == 2

\* The number of send_message and clear_history calls on a manager.
MaxCalls == 4

\* The number of callers that use the compiled graph at the same time.
MaxConc == 2

Callers == 1 .. MaxConc

-----------------------------------------------------------------------------
(* Strings *)

Whitespace == {" ", "\t", "\n", "\r"}

UpperCase == <<"A","B","C","D","E","F","G","H","I","J","K","L","M",
               "N","O","P","Q","R","S","T","U","V","W","X","Y","Z">>

LowerCase == <<"a","b","c","d","e","f","g","h","i","j","k","l","m",
               "n","o","p","q","r","s","t","u","v","w","x","y","z">>

lower_char(c) ==
    IF \E i \in 1..Len(UpperCase) : UpperCase[i] = c
    THEN LowerCase[CHOOSE i \in 1..Len(UpperCase) : UpperCase[i] = c]
    ELSE c

RECURSIVE lower(_)
lower(s) == IF Len(s) = 0 THEN <<>> ELSE <<lower_char(Head(s))>> \o lower(Tail(s))

RECURSIVE lstrip(_)
lstrip(s) == IF Len(s) > 0 /\ Head(s) \in Whitespace THEN lstrip(Tail(s)) ELSE s

RECURSIVE rstrip(_)
rstrip(s) ==
    IF Len(s) > 0 /\ s[Len(s)] \in Whitespace
    THEN rstrip(SubSeq(s, 1, Len(s) - 1))
    ELSE s

strip(s) == rstrip(lstrip(s))

empty == <<>>
technical == <<"t","e","c","h","n","i","c","a","l">>
greeting == <<"g","r","e","e","t","i","n","g">>
general == <<"g","e","n","e","r","a","l">>
analyzer == <<"a","n","a","l","y","z","e","r">>
responder == <<"r","e","s","p","o","n","d","e","r">>
end == <<"e","n","d">>

\* The categories orchestrator_node accepts.
Categories == {technical, greeting, general}

-----------------------------------------------------------------------------
(* The model: llm.invoke *)

maybe == <<"m","a","y","b","e">>
blank == <<" ","\n">>
ANALYSIS == <<"A","N","A","L","Y","S","I","S">>
RESPONSE == <<"R","E","S","P","O","N","S","E">>

\* Replies the model can give to any prompt.
Replies ==
    { technical,
      <<" ","T","e","c","h","n","i","c","a","l","\n">>,
      greeting,
      maybe,
      empty,
      blank,
      ANALYSIS,
      RESPONSE }

\* What one llm.invoke does: it returns a response or raises.
Outcomes ==
    [ok : {TRUE}, content : Replies] \cup {[ok |-> FALSE, content |-> empty]}

\* The queries run_query is called with.
Queries == { <<"H","i","!">>, <<"d","e","f","?">> }

\* A stub answers a prompt it has seen as it answered it before.
llm_invoke(prompt, out) ==
    /\ stubbed => \A m \in memo : m[1] = prompt => m[2] = out
    /\ memo' = IF stubbed THEN memo \cup {<<prompt, out>>} ELSE memo

-----------------------------------------------------------------------------
(* The nodes *)

classification_prompt(query) ==
    <<"Classify this user query ... Query: ">> \o query
        \o <<"\n\nRespond with ONLY ONE WORD: technical, greeting, or general">>

analysis_prompt(query) ==
    <<"You are a technical analyst. ... Query: ">> \o query
        \o <<"\n\nKeep your analysis concise (2-3 sentences).">>

\* response_prompt with the number of the run in front.
response_prompt_stamped(query, analysis) ==
    IF Len(analysis) > 0
    THEN <<ToString(runs), "Based on this analysis:\n">> \o analysis
            \o <<"\n\nProvide a clear, helpful response to the user's query: ">>
            \o query \o <<"\n\nKeep your response concise and practical.">>
    ELSE <<ToString(runs), "Provide a helpful response to this query: ">> \o query
            \o <<"\n\nKeep your response friendly and concise.">>

\* response_prompt testing `analysis is not None` instead of `analysis`.
response_prompt_notnone(query, analysis) ==
    <<"Based on this analysis:\n">> \o analysis
        \o <<"\n\nProvide a clear, helpful response to the user's query: ">>
        \o query \o <<"\n\nKeep your response concise and practical.">>

response_prompt(query, analysis) ==
    IF Len(analysis) > 0
    THEN <<"Based on this analysis:\n">> \o analysis
            \o <<"\n\nProvide a clear, helpful response to the user's query: ">>
            \o query \o <<"\n\nKeep your response concise and practical.">>
    ELSE <<"Provide a helpful response to this query: ">> \o query
            \o <<"\n\nKeep your response friendly and concise.">>

\* classify without its check of the category.
classify_nofallback(content) == lower(strip(content))

\* query_type as orchestrator_node computes it from the model's reply.
classify(content) ==
    LET query_type == lower(strip(content))
    IN  IF query_type \notin Categories THEN general ELSE query_type

\* What a node's call gives the graph when llm.invoke raised inside it.
Raise == [raised |-> TRUE]

Raised(ret) == "raised" \in DOMAIN ret

\* orchestrator_node with the test of its routing inverted.
orchestrator_node_inverted(s, out) ==
    IF ~out.ok THEN Raise
    ELSE LET query_type == classify(out.content)
             next_step == IF query_type # technical THEN analyzer ELSE responder
         IN  [s EXCEPT !.query_type = query_type, !.next_step = next_step]

\* orchestrator_node with a default category when llm.invoke raises.
orchestrator_node_fallback(s, out) ==
    LET query_type == IF ~out.ok THEN general ELSE classify(out.content)
        next_step == IF query_type = technical THEN analyzer ELSE responder
    IN  [s EXCEPT !.query_type = query_type, !.next_step = next_step]

\* orchestrator_node with the category itself as the routing label.
orchestrator_node_label(s, out) ==
    IF ~out.ok THEN Raise
    ELSE LET query_type == classify(out.content)
         IN  [s EXCEPT !.query_type = query_type, !.next_step = query_type]

orchestrator_node(s, out) ==
    IF ~out.ok THEN Raise
    ELSE LET query_type == classify(out.content)
             next_step == IF query_type = technical THEN analyzer ELSE responder
         IN  [s EXCEPT !.query_type = query_type, !.next_step = next_step]

\* analyzer_node storing its result under the key query_type.
analyzer_node_wrongkey(s, out) ==
    IF ~out.ok THEN Raise
    ELSE [s EXCEPT !.query_type = strip(out.content), !.next_step = responder]

\* analyzer_node storing its result under the key final_response.
analyzer_node_final(s, out) ==
    IF ~out.ok THEN Raise
    ELSE [s EXCEPT !.final_response = strip(out.content), !.next_step = responder]

\* analyzer_node asking for the end of the run.
analyzer_node_end(s, out) ==
    IF ~out.ok THEN Raise
    ELSE [s EXCEPT !.analysis = strip(out.content), !.next_step = end]

analyzer_node(s, out) ==
    IF ~out.ok THEN Raise
    ELSE [s EXCEPT !.analysis = strip(out.content), !.next_step = responder]

\* responder_node without the strip of the reply.
responder_node_raw(s, out) ==
    IF ~out.ok THEN Raise
    ELSE [s EXCEPT !.final_response = out.content, !.next_step = end]

\* responder_node answering with an empty response when llm.invoke raises.
responder_node_swallow(s, out) ==
    [s EXCEPT !.final_response = IF out.ok THEN strip(out.content) ELSE empty,
              !.next_step = end]

responder_node(s, out) ==
    IF ~out.ok THEN Raise
    ELSE [s EXCEPT !.final_response = strip(out.content), !.next_step = end]

route_after_orchestrator(s) == s.next_step

-----------------------------------------------------------------------------
(* The graph of create_agent_graph *)

END == "__end__"

Nodes == {"orchestrator", "analyzer", "responder"}

\* The function registered by add_node under the name `node`.
NodeFn(node, s, out) ==
    CASE node = "orchestrator" -> orchestrator_node(s, out)
      [] node = "analyzer" -> analyzer_node(s, out)
      [] node = "responder" -> responder_node(s, out)

entry_point == "orchestrator"

\* The mapping given to add_conditional_edges.
path_map ==
    [l \in {analyzer, responder} |-> IF l = analyzer THEN "analyzer" ELSE "responder"]

NoNode == "none"

\* Edge with responder wired back to the entry point instead of END.
Edge_cyclic(node, s) ==
    CASE node = "orchestrator" ->
            IF route_after_orchestrator(s) \in DOMAIN path_map
            THEN path_map[route_after_orchestrator(s)]
            ELSE NoNode
      [] node = "analyzer" -> "responder"
      [] node = "responder" -> "orchestrator"

\* The node after `node` when it returned s; NoNode when the routing label
\* is not in the mapping.
Edge(node, s) ==
    CASE node = "orchestrator" ->
            IF route_after_orchestrator(s) \in DOMAIN path_map
            THEN path_map[route_after_orchestrator(s)]
            ELSE NoNode
      [] node = "analyzer" -> "responder"
      [] node = "responder" -> END

\* A node updating the dict it received and returning that same dict.
node_return_inplace(h, i, ret) == [objs |-> [h EXCEPT ![i] = ret], ref |-> i]

\* `return {**state, ...}`: the node builds a new dict from the one at
\* position i and returns it; the dicts that exist are left as they are.
node_return(h, i, ret) == [objs |-> Append(h, ret), ref |-> Len(h) + 1]

-----------------------------------------------------------------------------
(* run_query *)

initial_state(query) ==
    [user_query |-> query, query_type |-> empty, analysis |-> empty,
     final_response |-> empty, next_step |-> empty]

NoResult == [none |-> TRUE]

\* A caller that has not called run_query.
Waiting ==
    [query |-> empty, state |-> initial_state(empty), current |-> NoNode,
     status |-> "idle", visited |-> <<>>, outs |-> <<>>]

\* system_prompt = None, the default of the constructor.
None == [given |-> FALSE, content |-> empty]

\* No ollama.chat call yet.
NoRequest == [model |-> "", messages |-> <<>>]

\* Before the first run_query.
Boot ==
    /\ state = initial_state(empty)
    /\ current = NoNode
    /\ status = "idle"
    /\ error = ""
    /\ visited = <<>>
    /\ calls = <<>>
    /\ result = NoResult
    /\ runs = 0
    /\ memo = {}
    /\ history = <<>>
    /\ initial = initial_state(empty)
    /\ objs = <<>>
    /\ cur = 0
    /\ conc = [r \in Callers |-> Waiting]
    /\ messages = <<>>
    /\ system_prompt = None
    /\ made = FALSE
    /\ request = NoRequest
    /\ sends = 0
    /\ failed = 0
    /\ clears = 0
    /\ last = "none"

\* The program as main runs it: llm is the model itself (temperature 0.7),
\* which answers a prompt it has seen in any way.
Init == Boot /\ stubbed = FALSE

\* The program with llm replaced by a stub that answers by prompt alone.
InitStub == Boot /\ stubbed = TRUE

\* The record a stubbed test keeps of a run that ended.
Outcome(st, vis, s) ==
    [initial |-> initial, status |-> st, visited |-> vis, final |-> s]

Record(st, vis, s) ==
    history' = IF stubbed THEN Append(history, Outcome(st, vis, s)) ELSE history

\* run_query handing the graph the dict of the run before, with the new query.
RunQuery_stale(query) ==
    /\ status \in {"idle", "done", "aborted"}
    /\ runs < MaxRuns
    /\ runs' = runs + 1
    /\ initial' = [state EXCEPT !.user_query = query]
    /\ state' = [state EXCEPT !.user_query = query]
    /\ objs' = <<[state EXCEPT !.user_query = query]>>
    /\ cur' = 1
    /\ current' = entry_point
    /\ status' = "running"
    /\ error' = ""
    /\ visited' = <<>>
    /\ calls' = <<>>
    /\ result' = NoResult
    /\ UNCHANGED <<stubbed, memo, history, conc>>
    /\ UNCHANGED convVars

\* run_query builds the initial state and enters the graph at its entry point.
RunQuery(query) ==
    /\ status \in {"idle", "done", "aborted"}
    /\ runs < MaxRuns
    /\ runs' = runs + 1
    /\ initial' = initial_state(query)
    /\ state' = initial_state(query)
    /\ objs' = <<initial_state(query)>>
    /\ cur' = 1
    /\ current' = entry_point
    /\ status' = "running"
    /\ error' = ""
    /\ visited' = <<>>
    /\ calls' = <<>>
    /\ result' = NoResult
    /\ UNCHANGED <<stubbed, memo, history, conc>>
    /\ UNCHANGED convVars

\* One step of graph.invoke: the node `node` calls the model with `prompt`
\* and gives ret; when the call raised, the exception leaves graph.invoke and
\* run_query; otherwise the graph takes ret as the state and follows the
\* node's edge.
Invoke(node, prompt, out, ret) ==
    /\ status = "running"
    /\ current = node
    /\ llm_invoke(prompt, out)
    /\ visited' = Append(visited, node)
    /\ calls' = Append(calls, [node |-> node, prompt |-> prompt, out |-> out])
    /\ IF Raised(ret)
       THEN /\ status' = "aborted"
            /\ error' = "ModelFailure"
            /\ UNCHANGED <<state, current, result, objs, cur>>
            /\ Record("aborted", visited', state)
       ELSE LET nxt == Edge(node, ret)
                built == node_return(objs, cur, ret)
            IN  /\ state' = ret
                /\ objs' = built.objs
                /\ cur' = built.ref
                /\ current' = nxt
                /\ status' = CASE nxt = END -> "done"
                               [] nxt = NoNode -> "aborted"
                               [] OTHER -> "running"
                /\ error' = IF nxt = NoNode THEN "UnknownRoutingLabel" ELSE ""
                /\ result' = IF nxt = END THEN ret ELSE result
                /\ IF nxt \in {END, NoNode}
                   THEN Record(status', visited', ret)
                   ELSE UNCHANGED history
    /\ UNCHANGED <<runs, stubbed, initial, conc>>
    /\ UNCHANGED convVars

Orchestrator ==
    \E out \in Outcomes :
        Invoke("orchestrator", classification_prompt(state.user_query), out,
               orchestrator_node(state, out))

Analyzer ==
    \E out \in Outcomes :
        Invoke("analyzer", analysis_prompt(state.user_query), out,
               analyzer_node(state, out))

Responder ==
    \E out \in Outcomes :
        Invoke("responder", response_prompt(state.user_query, state.analysis), out,
               responder_node(state, out))

\* The model call of the node in turn never returns.  llm is built without
\* a timeout and run_query takes no deadline, so nothing interrupts the call:
\* the node has been invoked and run_query stays inside it.
Block ==
    /\ status = "running"
    /\ current \in Nodes
    /\ status' = "blocked"
    /\ visited' = Append(visited, current)
    /\ UNCHANGED <<state, current, error, calls, result, runs, stubbed, memo,
                   history, initial, objs, cur, conc>>
    /\ UNCHANGED convVars

Start == \E query \in Queries : RunQuery(query)

Next == Start \/ Orchestrator \/ Analyzer \/ Responder

Spec == Init /\ [][Next]_vars

SpecStub == InitStub /\ [][Next]_vars

\* run_query is synchronous: a run in progress takes its next step.  Whether
\* the caller starts another run is left open.
SpecLive == Init /\ [][Next]_vars /\ WF_vars(Orchestrator \/ Analyzer \/ Responder)

\* The replies the model gives to concurrent callers.
ConcOutcomes ==
    { [ok |-> TRUE, content |-> technical], [ok |-> TRUE, content |-> maybe],
      [ok |-> FALSE, content |-> empty] }

\* All callers reading the state of the first caller's run.
StateOf_shared(r) == conc[1].state

\* The state graph.invoke threads through the nodes of caller r's run: the
\* dict that caller's run_query built, as its nodes returned it.
StateOf(r) == conc[r].state

\* Caller r calls run_query on the compiled graph.
ConcStart(r, query) ==
    /\ conc[r].status = "idle"
    /\ conc' = [conc EXCEPT ![r] =
                    [query |-> query, state |-> initial_state(query),
                     current |-> entry_point, status |-> "running",
                     visited |-> <<>>, outs |-> <<>>]]
    /\ UNCHANGED <<state, current, status, error, visited, calls, result, runs,
                   stubbed, memo, history, initial, objs, cur>>
    /\ UNCHANGED convVars

\* The run of caller r takes one step of graph.invoke, as Invoke does.
ConcStep(r, out) ==
    /\ conc[r].status = "running"
    /\ LET node == conc[r].current
           ret == NodeFn(node, StateOf(r), out)
           vis == Append(conc[r].visited, node)
           outs == Append(conc[r].outs, out)
       IN  conc' = [conc EXCEPT ![r] =
                IF Raised(ret)
                THEN [@ EXCEPT !.status = "aborted", !.visited = vis,
                               !.outs = outs]
                ELSE LET nxt == Edge(node, ret)
                     IN  [@ EXCEPT !.state = ret, !.current = nxt,
                                   !.status = CASE nxt = END -> "done"
                                                [] nxt = NoNode -> "aborted"
                                                [] OTHER -> "running",
                                   !.visited = vis, !.outs = outs]]
    /\ UNCHANGED <<state, current, status, error, visited, calls, result, runs,
                   stubbed, memo, history, initial, objs, cur>>
    /\ UNCHANGED convVars

ConcRun == \E r \in Callers, query \in Queries : ConcStart(r, query)

ConcNode == \E r \in Callers, out \in ConcOutcomes : ConcStep(r, out)

NextConc == ConcRun \/ ConcNode

\* Several callers using the one compiled graph, their steps in any order.
SpecConc == Init /\ [][NextConc]_vars

\* The program with a model whose calls may also never return.
NextBlock == Start \/ Orchestrator \/ Analyzer \/ Responder \/ Block

SpecBlock ==
    Init /\ [][NextBlock]_vars /\ WF_vars(Orchestrator \/ Analyzer \/ Responder)

-----------------------------------------------------------------------------
(* ConversationManager (src/example_2_conversation.py) *)

\* The system_prompt arguments: None, the empty string, a prompt.
SystemPrompts ==
    { None, [given |-> TRUE, content |-> empty],
      [given |-> TRUE, content |-> <<"B", "e", " ", "b", "r", "i", "e", "f">>] }

UserMessages == { <<"H", "i">>, <<"W", "h", "y", "?">> }

\* What ollama.chat does: it returns a reply or it raises.
ChatOutcomes ==
    [ok : {TRUE}, content : { <<"O", "k">>, <<"N", "o">> }]
        \cup {[ok |-> FALSE, content |-> empty]}

\* `if system_prompt:` is false for None and for the empty string.
Truthy(sp) == sp.given /\ sp.content # empty

model == "llama3"

\* The request sending the latest message alone.
chat_request_last(msgs) ==
    [model |-> model, messages |-> SubSeq(msgs, Len(msgs), Len(msgs))]

\* ollama.chat(model=self.model, messages=self.messages)
chat_request(msgs) == [model |-> model, messages |-> msgs]

get_history_length == Len(messages)

\* clear_history dropping every message.
clear_history_all(msgs) == <<>>

\* [msg for msg in self.messages if msg['role'] == 'system']
RECURSIVE clear_history(_)
clear_history(msgs) ==
    IF msgs = <<>> THEN <<>>
    ELSE IF Head(msgs).role = "system"
         THEN <<Head(msgs)>> \o clear_history(Tail(msgs))
         ELSE clear_history(Tail(msgs))

\* ConversationManager(model, system_prompt)
Construct(sp) ==
    /\ ~made
    /\ made' = TRUE
    /\ system_prompt' = sp
    /\ messages' = IF Truthy(sp)
                   THEN <<[role |-> "system", content |-> sp.content]>>
                   ELSE <<>>
    /\ last' = "init"
    /\ UNCHANGED <<request, sends, failed, clears>>
    /\ UNCHANGED graphVars

\* send_message removing the user message again when the model call raised.
send_message_rollback(user_message, out) ==
    /\ made
    /\ sends + failed + clears < MaxCalls
    /\ LET sent == Append(messages, [role |-> "user", content |-> user_message])
       IN  /\ request' = chat_request(sent)
           /\ IF out.ok
              THEN /\ messages' = Append(sent, [role |-> "assistant",
                                                content |-> out.content])
                   /\ sends' = sends + 1
                   /\ last' = "send"
                   /\ UNCHANGED failed
              ELSE /\ messages' = messages
                   /\ failed' = failed + 1
                   /\ last' = "fail"
                   /\ UNCHANGED sends
    /\ UNCHANGED <<system_prompt, made, clears>>
    /\ UNCHANGED graphVars

\* send_message: the user message is appended, the whole list goes to
\* ollama.chat, and the reply is appended when the call returned; when it
\* raised, the exception leaves send_message after the first append.
send_message(user_message, out) ==
    /\ made
    /\ sends + failed + clears < MaxCalls
    /\ LET sent == Append(messages, [role |-> "user", content |-> user_message])
       IN  /\ request' = chat_request(sent)
           /\ IF out.ok
              THEN /\ messages' = Append(sent, [role |-> "assistant",
                                                content |-> out.content])
                   /\ sends' = sends + 1
                   /\ last' = "send"
                   /\ UNCHANGED failed
              ELSE /\ messages' = sent
                   /\ failed' = failed + 1
                   /\ last' = "fail"
                   /\ UNCHANGED sends
    /\ UNCHANGED <<system_prompt, made, clears>>
    /\ UNCHANGED graphVars

ClearHistory ==
    /\ made
    /\ sends + failed + clears < MaxCalls
    /\ messages' = clear_history(messages)
    /\ clears' = clears + 1
    /\ last' = "clear"
    /\ UNCHANGED <<system_prompt, made, request, sends, failed>>
    /\ UNCHANGED graphVars

New == \E sp \in SystemPrompts : Construct(sp)

Send == \E user_message \in UserMessages, out \in ChatOutcomes :
            send_message(user_message, out)

NextConv == New \/ Send \/ ClearHistory

SpecConv == Init /\ [][NextConv]_vars

-----------------------------------------------------------------------------
(* Properties *)

IsPrefix(a, b) == Len(a) <= Len(b) /\ SubSeq(b, 1, Len(a)) = a

Range(f) == {f[i] : i \in DOMAIN f}

\* The order of nodes for a query_type.
ExpectedPath(query_type) ==
    IF query_type = technical
    THEN <<"orchestrator", "analyzer", "responder">>
    ELSE <<"orchestrator", "responder">>

\* The i-th llm.invoke of the run returned.
Returned(i) == i \in DOMAIN calls /\ calls[i].out.ok

\* The last llm.invoke of the run raised.
LastCallRaised == calls # <<>> /\ ~calls[Len(calls)].out.ok

\* C1 as stated: every run that ended after orchestrator set query_type,
\* aborted ones included, invoked exactly
\* orchestrator, analyzer, responder when query_type is technical and exactly
\* orchestrator, responder otherwise.
C1_Original ==
    (status \in {"done", "aborted"} /\ Returned(1)) =>
        visited = ExpectedPath(state.query_type)

\* C1, amended: a run that completes invoked exactly orchestrator, analyzer,
\* responder when orchestrator set query_type to technical, and exactly
\* orchestrator, responder otherwise; a run in progress or aborted has
\* invoked a prefix of that order, and the node it executes next continues
\* it; so analyzer is invoked only when query_type is technical, and always
\* when it is technical and orchestrator returned.
C1_RoutingOrder ==
    /\ status = "done" => visited = ExpectedPath(state.query_type)
    /\ status \in {"running", "aborted"} =>
            IsPrefix(visited, ExpectedPath(state.query_type))
    /\ (status = "running" /\ visited # <<>>) =>
            IsPrefix(Append(visited, current), ExpectedPath(state.query_type))
    /\ "analyzer" \in Range(visited) => state.query_type = technical

C1_Witness ==
    /\ status = "done"
    /\ visited = <<"orchestrator", "analyzer", "responder">>
    /\ state.query_type = technical

NoRepeat == \A i, j \in DOMAIN visited : i # j => visited[i] # visited[j]

\* C2: no node is invoked twice in a run, no run invokes more than 3 nodes,
\* and a run in progress reaches the terminal END unless a model call raised
\* (every reply of Replies is a possible classification reply).
C2_Terminates ==
    /\ [](NoRepeat /\ Len(visited) <= 3)
    /\ (status = "running") ~> ((status = "done" /\ current = END) \/ LastCallRaised)

C2_Witness ==
    status = "done" /\ current = END /\ Len(visited) = 3 /\ ~LastCallRaised

\* C3 as stated: a classification reply that is not one of the three strings
\* technical, greeting, general gives query_type general and no analyzer.
C3_Original ==
    (Returned(1) /\ calls[1].out.content \notin Categories) =>
        (state.query_type = general /\ "analyzer" \notin Range(visited))

\* C3, amended: a classification reply that, trimmed and lower-cased, is not
\* one of technical, greeting, general gives query_type general, and analyzer
\* is neither invoked nor the next node; after orchestrator returned,
\* query_type is one of the three categories in every state of the run.
C3_Fallback ==
    /\ Returned(1) => state.query_type \in Categories
    /\ (Returned(1) /\ lower(strip(calls[1].out.content)) \notin Categories) =>
            /\ state.query_type = general
            /\ "analyzer" \notin Range(visited)
            /\ current # "analyzer"

C3_Witness ==
    /\ status = "done"
    /\ calls[1].out.content = maybe
    /\ state.query_type = general
    /\ visited = <<"orchestrator", "responder">>

\* The step invoked `node`.
NodeActed(node) == visited' = Append(visited, node)

\* C4: orchestrator leaves user_query, analysis and final_response as they
\* were, analyzer leaves user_query, query_type and final_response, responder
\* leaves user_query, query_type and analysis; query_type does not change
\* after orchestrator; user_query of the run's state and of the returned
\* final state is that of the initial state.
C4_Frame ==
    /\ [][ /\ NodeActed("orchestrator") =>
                /\ state'.user_query = state.user_query
                /\ state'.analysis = state.analysis
                /\ state'.final_response = state.final_response
           /\ NodeActed("analyzer") =>
                /\ state'.user_query = state.user_query
                /\ state'.query_type = state.query_type
                /\ state'.final_response = state.final_response
           /\ NodeActed("responder") =>
                /\ state'.user_query = state.user_query
                /\ state'.query_type = state.query_type
                /\ state'.analysis = state.analysis
           /\ (status = "running" /\ visited # <<>>) =>
                state'.query_type = state.query_type ]_vars
    /\ [](/\ state.user_query = initial.user_query
          /\ status = "done" => result.user_query = initial.user_query)

C4_Witness ==
    /\ status = "done"
    /\ Len(visited) = 3
    /\ state.analysis # empty
    /\ state.final_response # empty
    /\ result.user_query = initial.user_query

\* C5: under a stub that answers by prompt alone, two runs that ended and
\* started from equal initial states invoked the same nodes in the same order
\* and ended alike in equal final states.
C5_Deterministic ==
    stubbed =>
        \A i, j \in DOMAIN history :
            history[i].initial = history[j].initial =>
                /\ history[i].visited = history[j].visited
                /\ history[i].status = history[j].status
                /\ history[i].final = history[j].final

C5_Witness ==
    /\ stubbed
    /\ Len(history) = 2
    /\ history[1].initial = history[2].initial
    /\ history[2].status = "done"
    /\ Len(history[2].visited) = 3


\* C6 as stated: in the final state, when the classification reply is the
\* string technical, analysis is analyzer's reply and final_response is
\* responder's reply; for any other classification reply analysis is empty
\* and final_response is responder's reply.
C6_Original ==
    status = "done" =>
        IF calls[1].out.content = technical
        THEN /\ result.analysis = calls[2].out.content
             /\ result.final_response = calls[Len(calls)].out.content
        ELSE /\ result.analysis = empty
             /\ result.final_response = calls[Len(calls)].out.content

\* C6, amended: in the final state of a run from an initial state with all
\* fields empty but user_query, when the classification reply, trimmed and
\* lower-cased, is technical, analysis is analyzer's reply trimmed and
\* final_response is responder's reply trimmed; otherwise analysis is still
\* empty and final_response is responder's reply trimmed.
C6_EndToEnd ==
    status = "done" =>
        IF lower(strip(calls[1].out.content)) = technical
        THEN /\ Len(calls) = 3
             /\ result.analysis = strip(calls[2].out.content)
             /\ result.final_response = strip(calls[3].out.content)
        ELSE /\ Len(calls) = 2
             /\ result.analysis = empty
             /\ result.final_response = strip(calls[2].out.content)

C6_Witness ==
    /\ status = "done"
    /\ Len(calls) = 3
    /\ calls[1].out.content = technical
    /\ calls[2].out.content = ANALYSIS
    /\ calls[3].out.content = RESPONSE
    /\ result.analysis = ANALYSIS
    /\ result.final_response = RESPONSE

\* llm.invoke raised inside orchestrator_node.
OrchestratorRaised ==
    Len(calls) >= 1 /\ calls[1].node = "orchestrator" /\ ~calls[1].out.ok

C8_FailurePropagates ==
    \A i \in DOMAIN calls :
        (~calls[i].out.ok /\ calls[i].node \in {"analyzer", "responder"}) =>
            /\ i = Len(calls)
            /\ Len(visited) = Len(calls)
            /\ visited[Len(visited)] = calls[i].node
            /\ status = "aborted"
            /\ result = NoResult
            /\ state.final_response = empty

C8_Witness ==
    /\ Len(calls) = 3
    /\ calls[3].node = "responder"
    /\ ~calls[3].out.ok
    /\ status = "aborted"

\* C9: no run ends on a routing label outside the mapping; when orchestrator
\* is about to run, whatever next_step and query_type held and whatever the
\* model replies, route_after_orchestrator gives a label of the mapping on
\* the state orchestrator returns; and in the state orchestrator returned it
\* gives analyzer or responder, the label of the node the graph executes
\* next.
C9_Labels ==
    /\ error # "UnknownRoutingLabel"
    /\ (status = "running" /\ current = "orchestrator") =>
            \A out \in Outcomes, before \in {empty, end, maybe, technical} :
                out.ok =>
                    route_after_orchestrator(
                        orchestrator_node([state EXCEPT !.next_step = before,
                                                        !.query_type = before], out))
                        \in DOMAIN path_map
    /\ (Returned(1) /\ Len(visited) = 1) =>
            /\ route_after_orchestrator(state) \in {analyzer, responder}
            /\ current = path_map[route_after_orchestrator(state)]

C9_Witness ==
    /\ Returned(1)
    /\ Len(visited) = 1
    /\ calls[1].out.content = maybe
    /\ route_after_orchestrator(state) = responder
    /\ current = "responder"

\* A run by itself on a graph just built: from the entry point and the
\* initial state for `query`, the nodes and edges applied to the outcomes
\* `outs` of its model calls, one after the other.
RECURSIVE Walk(_, _, _, _)
Walk(node, s, vis, outs) ==
    IF Len(outs) = 0
    THEN [state |-> s, visited |-> vis, current |-> node, status |-> "running"]
    ELSE LET ret == NodeFn(node, s, Head(outs))
             vis2 == Append(vis, node)
         IN  IF Raised(ret)
             THEN [state |-> s, visited |-> vis2, current |-> node,
                   status |-> "aborted"]
             ELSE LET nxt == Edge(node, ret)
                  IN  IF nxt \in {END, NoNode}
                      THEN [state |-> ret, visited |-> vis2, current |-> nxt,
                            status |-> IF nxt = END THEN "done" ELSE "aborted"]
                      ELSE Walk(nxt, ret, vis2, Tail(outs))

Alone(query, outs) ==
    Walk("orchestrator",
         [user_query |-> query, query_type |-> <<>>, analysis |-> <<>>,
          final_response |-> <<>>, next_step |-> <<>>],
         <<>>, outs)

OutsOf(log) == [i \in DOMAIN log |-> log[i].out]

\* C12: whatever runs came before on the same graph, completed or aborted,
\* a run that has just started is at orchestrator with every field but
\* user_query empty and nothing invoked or returned, and in every state of a
\* run its state, its nodes invoked, its next node and its ending are those
\* of a run by itself on a graph just built with the same query and the same
\* model outcomes: nothing of an earlier run shows.
C12_FreshRun ==
    /\ (status = "running" /\ visited = <<>>) =>
            /\ current = "orchestrator"
            /\ state.query_type = <<>>
            /\ state.analysis = <<>>
            /\ state.final_response = <<>>
            /\ state.next_step = <<>>
            /\ calls = <<>>
            /\ result = NoResult
    /\ status # "idle" =>
            LET alone == Alone(initial.user_query, OutsOf(calls))
            IN  /\ state = alone.state
                /\ visited = alone.visited
                /\ current = alone.current
                /\ status = alone.status

\* A second run, not technical, that completed with analysis empty after a
\* first run, technical, that was aborted in responder with an analysis.
C12_Witness ==
    /\ Len(history) = 2
    /\ history[1].status = "aborted"
    /\ history[1].final.analysis # <<>>
    /\ runs = 2
    /\ status = "done"
    /\ state.analysis = <<>>

\* The prompt is the one grounded in an analysis.
Grounded(prompt) == prompt[1] = "Based on this analysis:\n"

\* The analysis responder receives in a run started by run_query: the
\* trimmed reply of analyzer when analyzer ran, empty otherwise.
AnalysisReceived ==
    IF Len(calls) >= 2 /\ calls[2].node = "analyzer" /\ calls[2].out.ok
    THEN strip(calls[2].out.content)
    ELSE <<>>

\* C15: responder's prompt is the grounded one exactly when the analysis it
\* receives is not empty, and then holds that analysis; in a run started by
\* run_query it is grounded only if analyzer ran and its trimmed reply is not
\* empty, so a technical run whose analyzer reply is empty or only
\* whitespace gets the prompt made of the query alone.
C15_PromptChoice ==
    \A i \in DOMAIN calls :
        calls[i].node = "responder" =>
            /\ state.analysis = AnalysisReceived
            /\ Grounded(calls[i].prompt) <=> state.analysis # <<>>
            /\ Grounded(calls[i].prompt) =>
                    /\ "analyzer" \in Range(visited)
                    /\ SubSeq(calls[i].prompt, 2, 1 + Len(AnalysisReceived))
                            = AnalysisReceived
            /\ ~Grounded(calls[i].prompt) =>
                    /\ calls[i].prompt[1] = "Provide a helpful response to this query: "
                    /\ SubSeq(calls[i].prompt, 2, 1 + Len(state.user_query))
                            = state.user_query

\* A technical run whose analyzer replied with whitespace alone.
C15_Witness ==
    /\ Len(calls) = 3
    /\ lower(strip(calls[1].out.content)) = technical
    /\ calls[2].out.content = blank
    /\ calls[3].node = "responder"
    /\ ~Grounded(calls[3].prompt)

\* C16: a run that completed invoked responder once and last, and returned
\* the state responder gave, with next_step "end"; final_response is empty in
\* every state of a run in which responder has not been invoked.
C16_ResponderLast ==
    /\ status = "done" =>
            /\ visited[Len(visited)] = "responder"
            /\ Cardinality({i \in DOMAIN visited : visited[i] = "responder"}) = 1
            /\ result = state
            /\ result.next_step = end
            /\ result.final_response = strip(calls[Len(calls)].out.content)
    /\ "responder" \notin Range(visited) => state.final_response = <<>>

C16_Witness ==
    /\ status = "done"
    /\ Len(visited) = 3
    /\ result.final_response = RESPONSE
    /\ result.next_step = end

\* The node or terminal marker a value of next_step names.
Named(label) ==
    CASE label = analyzer -> "analyzer"
      [] label = responder -> "responder"
      [] label = end -> END
      [] OTHER -> NoNode

\* The engine of the specification: after a node, stop when next_step is
\* "end"; otherwise follow the node's edge (the routing function's label
\* when the edge is conditional).
RECURSIVE SpecWalk(_, _, _, _)
SpecWalk(node, s, vis, outs) ==
    IF Len(outs) = 0
    THEN [state |-> s, visited |-> vis, current |-> node, status |-> "running"]
    ELSE LET ret == NodeFn(node, s, Head(outs))
             vis2 == Append(vis, node)
         IN  IF Raised(ret)
             THEN [state |-> s, visited |-> vis2, current |-> node,
                   status |-> "aborted"]
             ELSE IF ret.next_step = end
             THEN [state |-> ret, visited |-> vis2, current |-> END,
                   status |-> "done"]
             ELSE LET nxt == Edge(node, ret)
                  IN  IF nxt \in {END, NoNode}
                      THEN [state |-> ret, visited |-> vis2, current |-> nxt,
                            status |-> IF nxt = END THEN "done" ELSE "aborted"]
                      ELSE SpecWalk(nxt, ret, vis2, Tail(outs))

\* C17: after a node returned, next_step names the node the graph executes
\* next (END for "end"); and the engine of the specification, given the
\* run's query and model outcomes, invokes the same nodes and is in the same
\* state, at the same node and with the same ending as the run.
C17_NextStepAgrees ==
    /\ (visited # <<>> /\ ~LastCallRaised) => Named(state.next_step) = current
    /\ status # "idle" =>
            LET engine == SpecWalk("orchestrator", initial, <<>>, OutsOf(calls))
            IN  /\ state = engine.state
                /\ visited = engine.visited
                /\ current = engine.current
                /\ status = engine.status

C17_Witness ==
    /\ status = "running"
    /\ visited = <<"orchestrator", "analyzer">>
    /\ state.next_step = responder
    /\ current = "responder"

\* C14: a node that returns leaves every dict that existed before the call,
\* the one it received included, with the field values it had, and returns a
\* dict that did not exist before; a node whose model call raised leaves all
\* dicts as they were.  The dict run_query built stays equal to the initial
\* state for the whole run, and the graph's state is the dict returned last.
C14_InputUntouched ==
    /\ [][(\E n \in Nodes : NodeActed(n)) =>
            /\ \A i \in DOMAIN objs : objs'[i] = objs[i]
            /\ IF calls'[Len(calls')].out.ok
               THEN /\ cur' \notin DOMAIN objs
                    /\ cur' \in DOMAIN objs'
                    /\ objs'[cur'] = state'
               ELSE objs' = objs /\ cur' = cur]_vars
    /\ [](status # "idle" => (objs[1] = initial /\ objs[cur] = state))

C14_Witness ==
    /\ status = "done"
    /\ Len(objs) = 4
    /\ objs[1] = initial
    /\ objs[2].query_type = technical /\ objs[2].analysis = empty
    /\ objs[3].analysis = ANALYSIS /\ objs[3].final_response = empty
    /\ objs[4] = result

\* C13: a run whose model call blocks is aborted with a timeout error, no
\* further node being invoked; it does not stay blocked for ever.
C13_Original ==
    /\ (status = "blocked") ~> (status = "aborted" /\ error = "ModelTimeout")
    /\ [][status = "blocked" => visited' = visited]_vars

\* C11: whatever the order of the steps of concurrent runs, each run invokes
\* the nodes and has the state, the position and the ending of a run by
\* itself with the same query and the same model outcomes.
C11_NoInterference ==
    \A r \in Callers :
        conc[r].status # "idle" =>
            LET alone == Alone(conc[r].query, conc[r].outs)
            IN  /\ conc[r].state = alone.state
                /\ conc[r].visited = alone.visited
                /\ conc[r].current = alone.current
                /\ conc[r].status = alone.status

\* Two runs with different queries in progress at once, one of which ends.
C11_Witness ==
    /\ conc[1].query # conc[2].query
    /\ conc[1].status = "running"
    /\ conc[1].visited = <<"orchestrator", "analyzer">>
    /\ conc[2].status = "done"
    /\ conc[2].visited = <<"orchestrator", "responder">>
    /\ conc[2].state.user_query = conc[2].query

\* The number of messages the constructor put in the history.
Lead == IF Truthy(system_prompt) THEN 1 ELSE 0

\* The messages after the first `off` have the roles user, assistant in turn.
Alternates(msgs, off) ==
    \A i \in 1 .. (Len(msgs) - off) :
        msgs[off + i].role = IF i % 2 = 1 THEN "user" ELSE "assistant"

TwoUsers(msgs, i) ==
    /\ i >= 1 /\ i + 1 <= Len(msgs)
    /\ msgs[i].role = "user" /\ msgs[i + 1].role = "user"

\* C20: a send_message call whose model call raised leaves the history with
\* the user message appended and nothing after it, the messages there were
\* being kept; the request of the send_message that follows ends with two
\* user messages.
C20_NoRollback ==
    /\ [][failed' = failed + 1 =>
            /\ Len(messages') = Len(messages) + 1
            /\ IsPrefix(messages, messages')
            /\ messages'[Len(messages')].role = "user"
            /\ request'.messages = messages']_vars
    /\ [][(last = "fail" /\ last' \in {"send", "fail"}) =>
            /\ SubSeq(request'.messages, 1, Len(messages)) = messages
            /\ TwoUsers(request'.messages, Len(request'.messages) - 1)]_vars

\* A send that raised followed by one that returned.
C20_Witness ==
    /\ failed = 1 /\ sends = 1 /\ clears = 0 /\ last = "send"
    /\ TwoUsers(messages, Len(messages) - 2)
    /\ messages[Len(messages)].role = "assistant"
    /\ TwoUsers(request.messages, Len(request.messages) - 1)

=============================================================================
